---- MODULE Spec2Model ----
(***************************************************************************)
(* Crawl-and-extraction engine of the image-classifier dataset tools.      *)
(*   src/wga-parser.py           the dataset builder (build_dataset)       *)
(*   src/modern-image-parser.py  the simple collector (main)               *)
(* Each routine is a state machine of its own, with its own specification: *)
(*   SpecBFS      collect_pages_within_artist                              *)
(*   SpecResolve  parse_artwork_page                                       *)
(*   Spec         build_dataset, from the artist crawl to the returned      *)
(*                manifest (lines 319-469)                                 *)
(*   SpecQuota    build_dataset on a site where every work is acceptable   *)
(*   SpecMain     main of the simple collector (lines 320-428)             *)
(*   SpecFetch    the retrying fetches of both programs                    *)
(*   SpecFn       the pure helpers: file extensions, srcset, image         *)
(*                resolution, title and date                               *)
(*   SpecStore    the two programs side by side, each storing images       *)
(*   SpecWalk     the whole-collection walks of either program             *)
(*   SpecStart    build_dataset from its entry to the artist crawl         *)
(***************************************************************************)
EXTENDS Integers, Sequences, FiniteSets, TLC

VARIABLES
    \* collect_pages_within_artist
    bfs_pc,            \* "idle" | "loop" | "done"
    artist_index_url,  \* the unwrapped root URL (line 179)
    max_index_pages,   \* the visit cap (parameter)
    queue,             \* list of URLs still to pop (line 180)
    seen,              \* set of URLs popped and marked visited (line 181)
    work_pages,        \* set of collected work-page URLs (line 182)
    bfs_result,        \* the returned pair, or "none"
    fetchlog,          \* observation: the URLs handed to fetcher.get_text, in order
    failed,            \* observation: the URLs whose fetch raised
    due,               \* observation: in-folder index links read on fetched pages
    found,             \* observation: in-folder work links read on fetched pages
    enq_count,         \* observation: how often each URL was put on the queue
    \* parse_artwork_page
    res_pc,            \* "idle" | "loop" | "final" | "done" | "raised"
    site,              \* what each work URL serves: refresh, main frame, image
    work_url,          \* the working URL (lines 257, 267, 274)
    hop,               \* iterations of the resolver loop begun (line 259)
    res_fetches,       \* observation: the URLs handed to fetcher.get_text, in order
    art,               \* the returned value (see NoArt)
    \* build_dataset
    pc,                \* "idle" | "listing" | "artists" | "works" | "done" |
                       \* "raised" | "interrupted"
    sleep,             \* parameter of build_dataset: the politeness delay, in tenths of a second
    fetcher,           \* the Fetcher build_dataset holds (line 317), see NoFetcher
    world,             \* the site crawled: any site, or one whose works are all good
    min_per_class,     \* parameters of build_dataset
    max_per_class,
    max_pages,         \* max_pages_artist_list
    page_i,            \* collect_all_artists: pages read (line 148)
    listed,            \* observation: what the last page of the artist list gave
    all_rows,          \* collect_all_artists: artist rows kept so far (line 146)
    artists,           \* the artist list (line 320)
    ai,                \* artists begun (line 333)
    movement_id,       \* class of the current artist (line 335)
    nworks,            \* len(work_pages) of the current artist (line 359)
    wi,                \* work pages of the current artist begun (line 373)
    counts,            \* class counters (line 327)
    seen_image_urls,   \* Seen-Image Index (line 328)
    sample_id,         \* line 329
    rows,              \* manifest rows accepted so far (line 326)
    files,             \* files under images/: <<class, sample id>> -> content
    manifest,          \* what build_dataset returned, if it did
    fetched,           \* observation: parse_artwork_page calls for the artist begun last
    last,              \* observation: how the last work-page iteration ended
    \* main of the simple collector
    m_pc,              \* "idle" | "start" | "acquired" | "listing" | "details" |
                       \* "exited"
    driver,            \* the headless browser: "none" | "running" | "quit"
    acquired_n,        \* observation: calls of get_selenium_driver that returned
    m_exit,            \* observation: how main was left
    page_no,           \* the listing page in turn (`page`, line 334)
    seen_detail_urls,  \* line 324
    all_items,         \* listing candidates kept (line 326)
    idx,               \* candidates begun in the detail loop (line 369)
    m_rows,            \* manifest rows (line 323)
    m_files,           \* files under OUT_DIR: name -> content
    m_last,            \* observation: what the last detail iteration did
    m_listed,          \* observation: what the last listing page gave
    \* one retrying fetch: get_html, get_bytes, Fetcher.get_text, Fetcher.get_bytes
    f_pc,              \* "idle" | "try" | "returned" | "failed"
    f_kind,            \* which of the four fetches
    f_attempts,        \* observation: the responses of the attempts, in order
    \* one call of a pure helper
    fn_pc,             \* "idle" | "call" | "done"
    fn_name,           \* the helper called
    fn_arg,            \* its argument
    fn_out             \* its result

bfsVars == <<bfs_pc, artist_index_url, max_index_pages, queue, seen, work_pages,
             bfs_result, fetchlog, failed, due, found, enq_count>>

resVars == <<res_pc, site, work_url, hop, res_fetches, art>>

bldVars == <<pc, sleep, fetcher, world, min_per_class, max_per_class, max_pages, page_i, listed,
             all_rows,
             artists, ai, movement_id, nworks, wi, counts, seen_image_urls,
             sample_id, rows, files, manifest, fetched, last>>

mainVars == <<m_pc, driver, acquired_n, m_exit, page_no, seen_detail_urls, all_items,
              idx, m_rows, m_files, m_last, m_listed>>

\* the routines of wga-parser.py / everything else
coreVars == <<bfsVars, resVars, bldVars>>
fetVars == <<f_pc, f_kind, f_attempts>>
fnVars == <<fn_pc, fn_name, fn_arg, fn_out>>
extVars == <<mainVars, fetVars, fnVars>>

vars == <<coreVars, extVars>>

(***************************************************************************)
(* Bounds of the model.                                                    *)
(***************************************************************************)
MaxLinks == 2          \* anchors on one index page
MaxCap == 3            \* largest max_index_pages tried
MaxRows == 2           \* artist rows on one page of the artist list
MaxListPages == 2      \* pages of the artist list that hold rows
MaxWorks == 2          \* work pages found for one artist
MaxQuota == 2          \* largest min_per_class / max_per_class tried
NImages == 3           \* distinct image URLs on the site
ScnWorks == 6          \* SpecQuota: most work pages of one artist
ScnQuota == 10         \* SpecQuota: largest max_per_class tried

(***************************************************************************)
(* URLs.  A URL is its host, the folders of its path, its file name, and   *)
(* whether it is the frameset form ".../frames-e.html?<inner path>".       *)
(***************************************************************************)
Url(h, d, f, w) == [host |-> h, dir |-> d, file |-> f, wrapped |-> w]

NoUrl == Url("", <<>>, "", FALSE)    \* None, where a URL is expected

\* the value of parse_artwork_page: "unset" before it returns, "None", or a record
NoArt(status) == [status |-> status, work_url |-> NoUrl, image_url |-> "None"]

ArtistDir == <<"html", "a", "art1">>
RootUrl  == Url("wga", ArtistDir, "index.html", FALSE)
RootUrlF == Url("wga", ArtistDir, "index.html", TRUE)
SubUrl   == Url("wga", ArtistDir \o <<"sub">>, "index.html", FALSE)
SubUrlF  == Url("wga", ArtistDir \o <<"sub">>, "index.html", TRUE)
Sub2Url  == Url("wga", ArtistDir \o <<"sub2">>, "index.html", FALSE)
WorkUrl  == Url("wga", ArtistDir, "w1.html", FALSE)
OtherUrl == Url("wga", <<"html", "a", "art2">>, "index.html", FALSE)
\* an absolute link to another host whose path lies under the artist's folder
MirrorWorkUrl == Url("mirror", ArtistDir, "w1.html", FALSE)

\* the hrefs an index page of the artist may carry
Hrefs == {RootUrl, SubUrl, SubUrlF, Sub2Url, WorkUrl, OtherUrl, MirrorWorkUrl}

RECURSIVE SeqsUpTo(_, _)
SeqsUpTo(S, n) ==
    IF n = 0 THEN {<<>>}
    ELSE LET shorter == SeqsUpTo(S, n - 1)
         IN  shorter \cup {Append(s, x) : s \in shorter, x \in S}

LinkLists == SeqsUpTo(Hrefs, MaxLinks)

\* unwrap_wga_frames: the frameset form gives its inner path on BASE_URL,
\* any other URL is joined to BASE_URL (an absolute URL stays as it is)
unwrap_wga_frames(u) ==
    IF u.wrapped THEN Url("wga", u.dir, u.file, FALSE) ELSE u

is_html_work_page(u) ==
    /\ Len(u.dir) > 0 /\ u.dir[1] = "html"
    /\ u.file # "index.html"
    /\ ~u.wrapped

is_html_index_page(u) ==
    /\ Len(u.dir) > 0 /\ u.dir[1] = "html"
    /\ u.file = "index.html"
    /\ ~u.wrapped

IsPrefix(p, s) == Len(p) <= Len(s) /\ SubSeq(s, 1, Len(p)) = p

\* same_artist_folder: the candidate's path starts with the root's directory
same_artist_folder(root, cand) == IsPrefix(root.dir, cand.dir)

(***************************************************************************)
(* collect_pages_within_artist (lines 177-209)                             *)
(***************************************************************************)
\* lines 197-207: the anchors of one fetched page, in document order
RECURSIVE ScanLinks(_, _, _, _)
ScanLinks(ls, q, wp, sn) ==
    IF ls = <<>> THEN [queue |-> q, work_pages |-> wp]
    ELSE LET href == unwrap_wga_frames(Head(ls))
         IN  IF ~same_artist_folder(artist_index_url, href)
             THEN ScanLinks(Tail(ls), q, wp, sn)
             ELSE IF is_html_work_page(href)
             THEN ScanLinks(Tail(ls), q, wp \cup {href}, sn)
             ELSE IF is_html_index_page(href) /\ href \notin sn
             THEN ScanLinks(Tail(ls), Append(q, href), wp, sn)
             ELSE ScanLinks(Tail(ls), q, wp, sn)

\* lines 199-203: the unwrapped links of a page that lie in the artist folder
InFolder(ls) ==
    {u \in {unwrap_wga_frames(ls[i]) : i \in 1..Len(ls)} :
        same_artist_folder(artist_index_url, u)}

NormUrls == {unwrap_wga_frames(h) : h \in Hrefs \cup {RootUrl}}

\* the entries of q past its first n, counted into the bag c
Counted(c, q, n) ==
    [u \in NormUrls |->
        c[u] + Cardinality({i \in (n + 1)..Len(q) : q[i] = u})]

\* mutant of LoopCond: the visit cap is not looked at
LoopCondNoCap == queue # <<>>

\* line 184
LoopCond == queue # <<>> /\ Cardinality(seen) < max_index_pages

\* mutant of AlreadySeen: a popped URL is never taken as visited
NeverSeen(url, sn) == FALSE

\* line 187
AlreadySeen(url, sn) == url \in sn

\* mutant of AfterFailedFetch: a failed fetch gives up the rest of the queue
AbortWalk(q) == <<>>

\* lines 193-194: what a failed fetch leaves of the queue
AfterFailedFetch(q) == q

\* one iteration of the while loop (lines 185-207)
Visit ==
    /\ bfs_pc = "loop"
    /\ LoopCond
    /\ LET url == unwrap_wga_frames(Head(queue))
           rest == Tail(queue)
       IN  IF AlreadySeen(url, seen)
           THEN /\ queue' = rest
                /\ UNCHANGED <<seen, work_pages, fetchlog, failed, due, found,
                               enq_count>>
           ELSE /\ seen' = seen \cup {url}
                /\ fetchlog' = Append(fetchlog, url)
                /\ \E ok \in BOOLEAN, ls \in LinkLists :
                     IF ~ok
                     THEN /\ ls = <<>>
                          /\ queue' = AfterFailedFetch(rest)
                          /\ failed' = failed \cup {url}
                          /\ UNCHANGED <<work_pages, due, found, enq_count>>
                     ELSE LET r == ScanLinks(ls, rest, work_pages, seen')
                          IN  /\ queue' = r.queue
                              /\ work_pages' = r.work_pages
                              /\ due' = due \cup {u \in InFolder(ls) : is_html_index_page(u)}
                              /\ found' = found \cup {u \in InFolder(ls) : is_html_work_page(u)}
                              /\ enq_count' = Counted(enq_count, r.queue, Len(rest))
                              /\ UNCHANGED failed
    /\ UNCHANGED <<bfs_pc, artist_index_url, max_index_pages, bfs_result>>
    /\ UNCHANGED <<resVars, bldVars, extVars>>

\* line 209
Return ==
    /\ bfs_pc = "loop"
    /\ ~LoopCond
    /\ bfs_pc' = "done"
    /\ bfs_result' = [work_pages |-> work_pages, seen |-> seen]
    /\ UNCHANGED <<artist_index_url, max_index_pages, queue, seen, work_pages,
                   fetchlog, failed, due, found, enq_count>>
    /\ UNCHANGED <<resVars, bldVars, extVars>>

DELAY == 5             \* wga-parser.py line 21: 0.5 s, in tenths of a second

\* a Fetcher instance and the delay it applies after a successful request
\* (self.delay, lines 88 and 95); NoFetcher where there is none
FetcherOf(d) == [made |-> TRUE, delay |-> d]
NoFetcher == [made |-> FALSE, delay |-> 0]

IdleBFS ==
    /\ bfs_pc = "idle"
    /\ artist_index_url = RootUrl
    /\ queue = <<>>
    /\ max_index_pages = 0
    /\ seen = {}
    /\ work_pages = {}
    /\ bfs_result = "none"
    /\ fetchlog = <<>>
    /\ failed = {}
    /\ due = {}
    /\ found = {}
    /\ enq_count = [u \in NormUrls |-> 0]

IdleRes ==
    /\ res_pc = "idle"
    /\ site = "none"
    /\ work_url = NoUrl
    /\ hop = 0
    /\ res_fetches = <<>>
    /\ art = NoArt("unset")

ClassIds == {"baroque", "rococo"}

IdleBuild ==
    /\ pc = "idle"
    /\ sleep = DELAY
    /\ fetcher = NoFetcher
    /\ world = [mode |-> "any", works |-> <<>>]
    /\ min_per_class = 0
    /\ max_per_class = 0
    /\ max_pages = 0
    /\ page_i = 0
    /\ listed = "none"
    /\ all_rows = <<>>
    /\ artists = <<>>
    /\ ai = 0
    /\ movement_id = "unknown"
    /\ nworks = 0
    /\ wi = 0
    /\ counts = [c \in ClassIds |-> 0]
    /\ seen_image_urls = {}
    /\ sample_id = 0
    /\ rows = <<>>
    /\ files = {}
    /\ manifest = [returned |-> FALSE, rows |-> <<>>]
    /\ fetched = 0
    /\ last = "none"

\* what one iteration of the detail loop of main did
Step(k, ex, nf, st) == [kind |-> k, existed |-> ex, img_fetches |-> nf, stored |-> st]
NoStep == Step("none", FALSE, 0, "na")

IdleMain ==
    /\ m_pc = "idle"
    /\ driver = "none"
    /\ acquired_n = 0
    /\ m_exit = "none"
    /\ page_no = 0
    /\ seen_detail_urls = {}
    /\ all_items = <<>>
    /\ idx = 0
    /\ m_rows = <<>>
    /\ m_files = {}
    /\ m_last = NoStep
    /\ m_listed = "none"

IdleFetch ==
    /\ f_pc = "idle"
    /\ f_kind = "none"
    /\ f_attempts = <<>>

IdleFn ==
    /\ fn_pc = "idle"
    /\ fn_name = "none"
    /\ fn_arg = <<>>
    /\ fn_out = ""

IdleExt ==
    /\ IdleMain
    /\ IdleFetch
    /\ IdleFn

\* lines 177-182, for a root given plain or in its frameset form
InitBFS ==
    /\ IdleRes
    /\ IdleBuild
    /\ IdleExt
    /\ bfs_pc = "loop"
    /\ \E arg \in {RootUrl, RootUrlF} :
         /\ artist_index_url = unwrap_wga_frames(arg)
         /\ queue = <<unwrap_wga_frames(arg)>>
    /\ max_index_pages \in 0..MaxCap
    /\ seen = {}
    /\ work_pages = {}
    /\ bfs_result = "none"
    /\ fetchlog = <<>>
    /\ failed = {}
    /\ due = {}
    /\ found = {}
    /\ enq_count = [u \in NormUrls |-> IF u = RootUrl THEN 1 ELSE 0]

NextBFS == Visit \/ Return

SpecBFS == InitBFS /\ [][NextBFS]_vars
\* the walk is a sequential loop: it takes its next step whenever it has one
FairSpecBFS == SpecBFS /\ WF_vars(NextBFS)

NoRefetch == \A i, j \in 1..Len(fetchlog) : fetchlog[i] = fetchlog[j] => i = j

(***************************************************************************)
(* C6: the walk ends when the queue is empty or the visit cap is reached,  *)
(* whichever comes first; it fetches at most max_index_pages pages and no  *)
(* URL more than once.                                                     *)
(***************************************************************************)
C6_Safe ==
    /\ Len(fetchlog) <= max_index_pages
    /\ NoRefetch
    /\ bfs_pc = "done" =>
          /\ queue = <<>> \/ Cardinality(seen) >= max_index_pages
          /\ bfs_result.seen = {fetchlog[i] : i \in 1..Len(fetchlog)}

C6_BoundedWalk == []C6_Safe /\ <>(bfs_pc = "done")

\* the cap ends a walk whose queue still holds entries, after two fetches
C6_Witness ==
    /\ bfs_pc = "done"
    /\ queue # <<>>
    /\ max_index_pages = 2
    /\ Len(fetchlog) = 2

(***************************************************************************)
(* C7 as stated: every URL is put on the queue at most once in a walk.     *)
(***************************************************************************)
C7_EnqueuedOnce == \A u \in NormUrls : enq_count[u] <= 1

(***************************************************************************)
(* C7 as amended: every URL is visited (fetched) at most once, and a URL   *)
(* that has been visited is never put on the queue again; a URL met on     *)
(* pages before it is popped may be on the queue more than once.           *)
(***************************************************************************)
C7_VisitedOnce ==
    /\ []NoRefetch
    /\ [][\A u \in NormUrls : enq_count'[u] > enq_count[u] => u \notin seen']_vars

\* a URL was queued twice, both entries were popped, it was fetched once
C7_Witness ==
    /\ bfs_pc = "done"
    /\ queue = <<>>
    /\ enq_count[SubUrl] >= 2
    /\ SubUrl \in seen

\* the artist root's folder on the source site
InArtistFolder(u) == u.host = artist_index_url.host /\ IsPrefix(ArtistDir, u.dir)

\* C21: every page collect_pages_within_artist fetches after the root, and
\* every work page it returns, lies inside the artist root's folder on the
\* source site; a link that leaves the folder is neither enqueued nor collected
C21_StaysInArtistFolder ==
    /\ \A i \in 2..Len(fetchlog) : InArtistFolder(fetchlog[i])
    /\ \A i \in 1..Len(queue) : InArtistFolder(queue[i])
    /\ \A u \in work_pages : InArtistFolder(u)
    /\ bfs_pc = "done" => \A u \in bfs_result.work_pages : InArtistFolder(u)

(***************************************************************************)
(* C8: a failed fetch drops that entry only: the work pages collected are  *)
(* kept, and unless the cap ends the walk every in-folder index page that  *)
(* a fetched page links to is still visited.                               *)
(***************************************************************************)
C8_FailureDropsEntryOnly ==
    /\ work_pages = found
    /\ failed \subseteq seen
    /\ bfs_pc = "done" =>
          /\ bfs_result.work_pages = found
          /\ Cardinality(seen) < max_index_pages => due \subseteq seen

\* the second fetch failed, the third page was still fetched, a work page is returned
C8_Witness ==
    /\ bfs_pc = "done"
    /\ work_pages # {}
    /\ Len(fetchlog) = 3
    /\ fetchlog[2] \in failed
    /\ fetchlog[3] \notin failed
    /\ fetchlog[1] \notin failed

(***************************************************************************)
(* parse_artwork_page (lines 256-303)                                      *)
(***************************************************************************)
HopBound == 3          \* range(3), line 259

WorkDir == <<"html", "a", "art1">>
PageA  == Url("wga", WorkDir, "a.html", FALSE)
PageAF == Url("wga", WorkDir, "a.html", TRUE)
PageB  == Url("wga", WorkDir, "b.html", FALSE)
PageBF == Url("wga", WorkDir, "b.html", TRUE)

WorkUrls == {PageA, PageB}
\* what a refresh directive or a MAIN frame may point to
Targets == {NoUrl, PageA, PageAF, PageB, PageBF}
Contents == [refresh : Targets, frame : Targets, image : {"None", "img"}]

\* lines 282-303
ArtOf(u, page) ==
    IF page.image = "None" THEN NoArt("None")
    ELSE [status |-> "record", work_url |-> u, image_url |-> page.image]

\* mutant of MoreHops: the loop has no hop bound
MoreHopsUnbounded(i) == TRUE

\* line 259: for _ in range(3)
MoreHops(i) == i < HopBound

\* lines 263-275: the URL the page sends the resolver to, or NoUrl
NextHop(u, page) ==
    IF page.refresh # NoUrl /\ unwrap_wga_frames(page.refresh) # u
    THEN unwrap_wga_frames(page.refresh)
    ELSE IF page.frame # NoUrl /\ unwrap_wga_frames(page.frame) # u
    THEN unwrap_wga_frames(page.frame)
    ELSE NoUrl

\* one iteration of the resolver loop (lines 260-277)
ResolveStep ==
    /\ res_pc = "loop"
    /\ res_fetches' = Append(res_fetches, work_url)
    /\ \E ok \in BOOLEAN :
         IF ~ok
         THEN /\ res_pc' = "raised"
              /\ UNCHANGED <<work_url, hop>>
         ELSE LET to == NextHop(work_url, site[work_url])
              IN  IF to = NoUrl
                  THEN /\ res_pc' = "final"
                       /\ UNCHANGED <<work_url, hop>>
                  ELSE /\ work_url' = to
                       /\ hop' = hop + 1
                       /\ res_pc' = IF MoreHops(hop + 1) THEN "loop" ELSE "final"
    /\ UNCHANGED <<site, art>>
    /\ UNCHANGED <<bfsVars, bldVars, extVars>>

\* lines 279-303: the content page is read and the record built
Extract ==
    /\ res_pc = "final"
    /\ res_fetches' = Append(res_fetches, work_url)
    /\ \E ok \in BOOLEAN :
         IF ~ok
         THEN /\ res_pc' = "raised"
              /\ UNCHANGED art
         ELSE /\ res_pc' = "done"
              /\ art' = ArtOf(work_url, site[work_url])
    /\ UNCHANGED <<site, work_url, hop>>
    /\ UNCHANGED <<bfsVars, bldVars, extVars>>

\* line 257, for a work URL given plain or in its frameset form, on any site
InitRes ==
    /\ IdleBFS
    /\ IdleBuild
    /\ IdleExt
    /\ res_pc = "loop"
    /\ site \in [WorkUrls -> Contents]
    /\ \E arg \in {PageA, PageAF, PageB, PageBF} : work_url = unwrap_wga_frames(arg)
    /\ hop = 0
    /\ res_fetches = <<>>
    /\ art = NoArt("unset")

NextRes == ResolveStep \/ Extract

SpecResolve == InitRes /\ [][NextRes]_vars
\* parse_artwork_page is sequential code: it takes its next step whenever it has one
FairSpecResolve == SpecResolve /\ WF_vars(NextRes)

ResEnded == res_pc \in {"done", "raised"}

(***************************************************************************)
(* C4: the resolver ends for every site, after following at most HopBound  *)
(* refresh or main-frame indirections, also when a page points to itself   *)
(* and when two pages point to each other.                                 *)
(***************************************************************************)
C4_Safe ==
    /\ hop <= HopBound
    /\ Len(res_fetches) <= HopBound + 1

C4_ResolverTerminates == []C4_Safe /\ <>ResEnded

\* two pages that refresh to each other: three hops are followed, then the end
C4_Witness ==
    /\ res_pc = "done"
    /\ hop = HopBound
    /\ unwrap_wga_frames(site[PageA].refresh) = PageB
    /\ unwrap_wga_frames(site[PageB].refresh) = PageA

(***************************************************************************)
(* C5: resolving a work URL whose page has no refresh directive and no     *)
(* main frame fetches that URL exactly once and ends.                      *)
(***************************************************************************)
C5_TerminalFetchedOnce ==
    (/\ res_pc = "done"
     /\ hop = 0
     /\ site[work_url].refresh = NoUrl
     /\ site[work_url].frame = NoUrl)
    => Len(res_fetches) = 1

(***************************************************************************)
(* build_dataset (lines 305-469) with collect_all_artists (lines 145-174)  *)
(***************************************************************************)
ArtistUrls == {"a1", "a2"}
ListedMovements == {"Baroque", "Rococo", "?"}
Professions == {"painter", "sculptor"}
only_professions == {"painter"}

\* to_lowercase_identifier on the movements used here: lower case, blanks to "_",
\* everything but a-z0-9_ dropped, "unknown" when nothing is left
to_lowercase_identifier(m) ==
    CASE m = "Baroque" -> "baroque"
      [] m = "baroque" -> "baroque"
      [] m = "Rococo"  -> "rococo"
      [] OTHER         -> "unknown"

ArtistRows == [artist_url : ArtistUrls, movement_raw : ListedMovements,
               profession : Professions]
PageRowLists == SeqsUpTo(ArtistRows, MaxRows)

\* lines 139-142 and 171-174: a dict keyed by artist_url, read back as a list:
\* each URL keeps the place of its first row and the data of its last
RECURSIVE UniqFrom(_, _)
UniqFrom(rs, i) ==
    IF i > Len(rs) THEN <<>>
    ELSE IF \E j \in 1..(i - 1) : rs[j].artist_url = rs[i].artist_url
    THEN UniqFrom(rs, i + 1)
    ELSE LET lastk == CHOOSE k \in i..Len(rs) :
                        /\ rs[k].artist_url = rs[i].artist_url
                        /\ \A m \in (k + 1)..Len(rs) :
                              rs[m].artist_url # rs[i].artist_url
         IN  <<rs[lastk]>> \o UniqFrom(rs, i + 1)

Uniq(rs) == UniqFrom(rs, 1)

\* lines 161-162
ByProfession(rs) == SelectSeq(rs, LAMBDA r : r.profession \in only_professions)

\* what one work page gives: parse_artwork_page raises, returns None, or returns
\* a record with an image URL; and how storing that image goes
Outcome(k, u, st) == [kind |-> k, url |-> u, store |-> st]
AllOutcomes ==
    {Outcome("error", 0, "na"), Outcome("none", 0, "na")} \cup
    {Outcome("image", u, st) :
        u \in 1..NImages, st \in {"ok", "download_error", "write_error"}}

\* the work pages collect_pages_within_artist returns for artist a (-1: it raised)
PagesOf(a) ==
    IF world.mode = "healthy" THEN {world.works[a]} ELSE (-1)..MaxWorks

OutcomesOf(a, w) ==
    IF world.mode = "healthy" THEN {Outcome("image", 10 * a + w, "ok")}
    ELSE AllOutcomes

Exists(path) == \E f \in files : f.path = path

\* mutant of ClassFull: the class is taken as full one record too late
ClassFullLate(c) == counts[c] > max_per_class

\* lines 341 and 374
ClassFull(c) == counts[c] >= max_per_class

\* mutant of IsDuplicate: the Seen-Image Index is not consulted
NeverDuplicate(u) == FALSE

\* line 388
IsDuplicate(u) == u \in seen_image_urls

Classes(rs) == {rs[i].movement_id : i \in 1..Len(rs)}
CountIn(rs, c) == Cardinality({i \in 1..Len(rs) : rs[i].movement_id = c})

\* mutant of KeepClasses: no class is purged
KeepAllClasses(rs) == Classes(rs)

\* lines 448-451: the classes that stay in the manifest
KeepClasses(rs) ==
    IF rs # <<>> /\ min_per_class > 1
    THEN {c \in Classes(rs) : CountIn(rs, c) >= min_per_class}
    ELSE Classes(rs)

\* mutant of EndsWalk: a page without items does not end the walk
EndsWalkNever(items) == FALSE

\* wga-parser.py lines 158-159 (if not rows: break) and modern-image-parser.py
\* lines 345-347 (if not items: break)
EndsWalk(items) == items = <<>>

\* what a page of a collection gave: no items, items none of which is new, or
\* new items
Yield(items, fresh) ==
    IF items = <<>> THEN "empty" ELSE IF fresh = <<>> THEN "stale" ELSE "new"

\* the rows of a page whose artist is not among the rows kept so far
NewArtists(rs, kept) ==
    SelectSeq(rs, LAMBDA r : \A i \in 1..Len(kept) : kept[i].artist_url # r.artist_url)

\* lines 171-174 and 320: collect_all_artists returns, its locals are gone
Crawl(rs, gave) ==
    /\ pc' = "artists"
    /\ artists' = Uniq(rs)
    /\ all_rows' = <<>>
    /\ page_i' = 0
    /\ listed' = gave
    /\ max_pages' = 0

\* one page of the artist list (lines 151-169); the fetch is not guarded, so
\* its failure leaves collect_all_artists and build_dataset as an exception
ListPage ==
    /\ pc = "listing"
    /\ \E ok \in BOOLEAN, parsed \in PageRowLists :
         IF ~ok
         THEN /\ parsed = <<>>
              /\ pc' = "raised"
              /\ UNCHANGED <<page_i, listed, all_rows, artists, max_pages>>
         ELSE LET rws == Uniq(parsed)
              IN  /\ page_i >= MaxListPages => rws = <<>>
                  /\ IF EndsWalk(rws)
                     THEN Crawl(all_rows, "empty")
                     ELSE IF max_pages # 0 /\ page_i + 1 >= max_pages
                     THEN Crawl(all_rows \o ByProfession(rws),
                                Yield(rws, NewArtists(ByProfession(rws), all_rows)))
                     ELSE /\ all_rows' = all_rows \o ByProfession(rws)
                          /\ page_i' = page_i + 1
                          /\ pc' = "listing"
                          /\ listed' = Yield(rws, NewArtists(ByProfession(rws), all_rows))
                          /\ UNCHANGED <<artists, max_pages>>
    /\ UNCHANGED <<sleep, fetcher, world, min_per_class, max_per_class, ai, movement_id,
                   nworks, wi, counts, seen_image_urls, sample_id, rows, files,
                   manifest, fetched, last>>
    /\ UNCHANGED <<bfsVars, resVars, extVars>>

\* the head of one artist iteration (lines 333-371)
StartArtist ==
    /\ pc = "artists"
    /\ ai < Len(artists)
    /\ ai' = ai + 1
    /\ fetched' = 0
    /\ last' = "none"
    /\ LET cls == to_lowercase_identifier(artists[ai + 1].movement_raw)
       IN  IF cls = "unknown"
           THEN UNCHANGED <<pc, movement_id, nworks, wi>>
           ELSE IF ClassFull(cls)
           THEN UNCHANGED <<pc, movement_id, nworks, wi>>
           ELSE \E n \in PagesOf(ai + 1) :
                  IF n < 0
                  THEN UNCHANGED <<pc, movement_id, nworks, wi>>
                  ELSE /\ pc' = "works"
                       /\ movement_id' = cls
                       /\ nworks' = n
                       /\ wi' = 0
    /\ UNCHANGED <<sleep, fetcher, world, min_per_class, max_per_class, max_pages, page_i, listed,
                   all_rows,
                   artists, counts, seen_image_urls, sample_id, rows, files,
                   manifest>>
    /\ UNCHANGED <<bfsVars, resVars, extVars>>

\* mutant of AfterStoreError: the record of a failed store is kept
KeptAfterStoreError(rs, row) == Append(rs, row)

\* lines 435-441: the except clause drops the record whose store raised
AfterStoreError(rs, row) == rs

\* mutant of CountAccepted: an accepted record is counted twice
CountAcceptedTwice(cs, c) == [cs EXCEPT ![c] = @ + 2]

\* line 429: counts[movement_id] = counts.get(movement_id, 0) + 1
CountAccepted(cs, c) == [cs EXCEPT ![c] = @ + 1]

\* lines 397-429: the record of image u is stored and accepted
Accept(u, store) ==
    LET path == <<movement_id, sample_id>>
        row == [id |-> sample_id, movement_id |-> movement_id,
                artist_url |-> artists[ai].artist_url, image_url |-> u,
                local_path |-> path]
        accepted == /\ last' = "accepted"
                    /\ rows' = Append(rows, row)
                    /\ sample_id' = sample_id + 1
                    /\ counts' = CountAccepted(counts, movement_id)
    IN  IF Exists(path)
        THEN /\ store = "ok"
             /\ accepted
             /\ UNCHANGED files
        ELSE CASE store = "download_error" ->
                    /\ last' = "error"
                    /\ UNCHANGED <<rows, sample_id, counts, files>>
               [] store = "write_error" ->
                    /\ last' = "error"
                    /\ files' = files \cup {[path |-> path, data |-> -1]}
                    /\ rows' = AfterStoreError(rows, row)
                    /\ UNCHANGED <<sample_id, counts>>
               [] OTHER ->
                    /\ files' = files \cup {[path |-> path, data |-> u]}
                    /\ accepted

\* one iteration of the work-page loop (lines 373-441)
WorkPage ==
    /\ pc = "works"
    /\ wi < nworks
    /\ IF ClassFull(movement_id)
       THEN /\ pc' = "artists"
            /\ UNCHANGED <<wi, counts, seen_image_urls, sample_id, rows, files,
                           fetched, last>>
       ELSE /\ wi' = wi + 1
            /\ fetched' = fetched + 1
            /\ pc' = "works"
            /\ \E o \in OutcomesOf(ai, wi + 1) :
                 IF o.kind # "image"
                 THEN /\ last' = IF o.kind = "none" THEN "no_image" ELSE "error"
                      /\ UNCHANGED <<counts, seen_image_urls, sample_id, rows, files>>
                 ELSE IF IsDuplicate(o.url)
                 THEN /\ last' = "duplicate"
                      /\ UNCHANGED <<counts, seen_image_urls, sample_id, rows, files>>
                 ELSE /\ seen_image_urls' = seen_image_urls \cup {o.url}
                      /\ Accept(o.url, o.store)
    /\ UNCHANGED <<sleep, fetcher, world, min_per_class, max_per_class, max_pages, page_i, listed,
                   all_rows,
                   artists, ai, movement_id, nworks, manifest>>
    /\ UNCHANGED <<bfsVars, resVars, extVars>>

\* the work-page loop is exhausted (lines 443-444)
EndArtist ==
    /\ pc = "works"
    /\ wi = nworks
    /\ pc' = "artists"
    /\ UNCHANGED <<sleep, fetcher, world, min_per_class, max_per_class, max_pages, page_i, listed,
                   all_rows,
                   artists, ai, movement_id, nworks, wi, counts, seen_image_urls,
                   sample_id, rows, files, manifest, fetched, last>>
    /\ UNCHANGED <<bfsVars, resVars, extVars>>

\* lines 446-469: classes under the floor are purged, the manifest is returned
Finish ==
    /\ pc = "artists"
    /\ ai = Len(artists)
    /\ pc' = "done"
    /\ LET keep == KeepClasses(rows)
           drop == Classes(rows) \ keep
       IN  /\ manifest' = [returned |-> TRUE,
                           rows |-> SelectSeq(rows, LAMBDA r : r.movement_id \in keep)]
           /\ files' = {f \in files : f.path[1] \notin drop}
    /\ UNCHANGED <<sleep, fetcher, world, min_per_class, max_per_class, max_pages, page_i, listed,
                   all_rows,
                   artists, ai, movement_id, nworks, wi, counts, seen_image_urls,
                   sample_id, rows, fetched, last>>
    /\ UNCHANGED <<bfsVars, resVars, extVars>>

\* KeyboardInterrupt is no Exception: no except clause of build_dataset or of
\* main (lines 358-364, 378-441, 471-489) takes it, it ends the program
Interrupt ==
    /\ pc \in {"listing", "artists", "works"}
    /\ pc' = "interrupted"
    /\ UNCHANGED <<sleep, fetcher, world, min_per_class, max_per_class, max_pages, page_i, listed,
                   all_rows,
                   artists, ai, movement_id, nworks, wi, counts, seen_image_urls,
                   sample_id, rows, files, manifest, fetched, last>>
    /\ UNCHANGED <<bfsVars, resVars, extVars>>

\* build_dataset past line 317, holding a fetcher that applies the delay given
HoldsFetcher ==
    /\ sleep = DELAY
    /\ fetcher = FetcherOf(sleep)

\* lines 326-331
StartOfRun ==
    /\ page_i = 0
    /\ listed = "none"
    /\ all_rows = <<>>
    /\ ai = 0
    /\ movement_id = "unknown"
    /\ nworks = 0
    /\ wi = 0
    /\ counts = [c \in ClassIds |-> 0]
    /\ seen_image_urls = {}
    /\ sample_id = 0
    /\ rows = <<>>
    /\ manifest = [returned |-> FALSE, rows |-> <<>>]
    /\ fetched = 0
    /\ last = "none"

\* build_dataset at line 319, holding a fetcher, for any quotas and page cap; the
\* output directory is empty or holds the first file of an earlier run
Init ==
    /\ IdleBFS
    /\ IdleRes
    /\ IdleExt
    /\ pc = "listing"
    /\ world = [mode |-> "any", works |-> <<>>]
    /\ min_per_class \in 0..MaxQuota
    /\ max_per_class \in 0..MaxQuota
    /\ max_pages \in 0..MaxListPages
    /\ files \in {{}, {[path |-> <<"baroque", 0>>, data |-> -2]}}
    /\ artists = <<>>
    /\ StartOfRun
    /\ HoldsFetcher

Next == ListPage \/ StartArtist \/ WorkPage \/ EndArtist \/ Finish \/ Interrupt

Spec == Init /\ [][Next]_vars

\* build_dataset at line 333 with two artists of one movement, on a site where
\* every work page gives a new image and every fetch and write succeeds
InitQuota ==
    /\ IdleBFS
    /\ IdleRes
    /\ IdleExt
    /\ pc = "artists"
    /\ \E ws \in [1..2 -> 0..ScnWorks] :
         world = [mode |-> "healthy", works |-> ws]
    /\ min_per_class = 0
    /\ max_per_class \in 0..ScnQuota
    /\ max_pages = 0
    /\ files = {}
    /\ artists = <<[artist_url |-> "a1", movement_raw |-> "Baroque",
                    profession |-> "painter"],
                   [artist_url |-> "a2", movement_raw |-> "baroque",
                    profession |-> "painter"]>>
    /\ StartOfRun
    /\ HoldsFetcher

NextQuota == StartArtist \/ WorkPage \/ EndArtist \/ Finish

SpecQuota == InitQuota /\ [][NextQuota]_vars

(***************************************************************************)
(* C1: in the manifest build_dataset returns, every class that appears has *)
(* at least min_per_class and at most max_per_class rows, whatever the     *)
(* artists, work pages, duplicates and failures of the run were.           *)
(***************************************************************************)
C1_QuotaBounds ==
    pc = "done" =>
        /\ manifest.returned
        /\ \A c \in Classes(manifest.rows) :
              /\ CountIn(manifest.rows, c) >= min_per_class
              /\ CountIn(manifest.rows, c) <= max_per_class

\* a run that filled one class to a ceiling equal to the floor and lost another
\* class to the floor
C1_Witness ==
    /\ pc = "done"
    /\ min_per_class = 2
    /\ max_per_class = 2
    /\ \E c \in Classes(manifest.rows) : CountIn(manifest.rows, c) = 2
    /\ Classes(rows) \ Classes(manifest.rows) # {}

(***************************************************************************)
(* C2: no two accepted records carry the same image URL, neither in the    *)
(* rows gathered during the run nor in the manifest returned; a record     *)
(* whose image URL is in the Seen-Image Index is rejected, also when it is *)
(* reached through another artist or another work page.                    *)
(***************************************************************************)
DistinctImages(rs) ==
    \A i, j \in 1..Len(rs) : i # j => rs[i].image_url # rs[j].image_url

C2_NoDuplicateRows ==
    /\ [](DistinctImages(rows) /\ DistinctImages(manifest.rows))
    /\ [][(pc = "works" /\ last' = "duplicate")
            => (rows' = rows /\ counts' = counts)]_vars

\* the second artist reached an image the first artist had already given
C2_Witness ==
    /\ pc = "works"
    /\ ai = 2
    /\ last = "duplicate"
    /\ rows # <<>>
    /\ \A i \in 1..Len(rows) : rows[i].artist_url = artists[1].artist_url

(***************************************************************************)
(* C3: for artists of one class taken in sequence, work pages are fetched  *)
(* while the class count is below max_per_class and no longer: an artist   *)
(* fetches exactly as many work pages as the class still had room for when *)
(* the artist began, or all of its pages when there are fewer (6 and 6     *)
(* works against max_per_class = 10: the second artist stops after 4).     *)
(***************************************************************************)
Min(a, b) == IF a <= b THEN a ELSE b

RECURSIVE TakenBefore(_)
TakenBefore(a) ==
    IF a <= 1 THEN 0
    ELSE Min(max_per_class, TakenBefore(a - 1) + world.works[a - 1])

Expected(a) == Min(world.works[a], max_per_class - TakenBefore(a))

C3_FetchesWhileBelowMax ==
    /\ ai >= 1 => fetched <= Expected(ai)
    /\ (ai >= 1 /\ pc \in {"artists", "done"}) => fetched = Expected(ai)

C3_Witness ==
    /\ world.works = <<ScnWorks, ScnWorks>>
    /\ max_per_class = ScnQuota
    /\ pc = "artists"
    /\ ai = 2
    /\ fetched = ScnQuota - ScnWorks
    /\ Len(rows) = ScnQuota

(***************************************************************************)
(* C9: a failure on a single page or record never aborts the run.          *)
(***************************************************************************)
C9_NeverAborts == pc # "raised"

(***************************************************************************)
(* C10: when an interrupt arrives, the records accepted so far are still   *)
(* emitted as the run's manifest.                                          *)
(***************************************************************************)
C10_InterruptFlushes ==
    (pc = "interrupted" /\ rows # <<>>) =>
        (manifest.returned /\ manifest.rows = rows)

(***************************************************************************)
(* File extensions: guess_ext_from_url_or_ct (modern-image-parser.py lines *)
(* 272-289) and ext_from_url (wga-parser.py lines 56-61).  An image URL is *)
(* its stem and the suffix its path ends with after the last dot ("" when  *)
(* the path has none).                                                     *)
(***************************************************************************)
ImgUrl(stem, suffix) == [stem |-> stem, suffix |-> suffix]
NoImg == ImgUrl("", "")       \* None, where an image URL is expected

Suffixes == {"", "jpg", "JPG", "jpeg", "Jpeg", "png", "PNG", "webp", "gif", "bmp"}
ContentTypes == {"", "image/jpeg", "image/jpg", "IMAGE/PNG", "image/png",
                 "image/webp", "image/gif", "text/html"}

\* str.lower() on the strings above
Lower(x) ==
    CASE x = "JPG"       -> "jpg"
      [] x = "Jpeg"      -> "jpeg"
      [] x = "PNG"       -> "png"
      [] x = "IMAGE/PNG" -> "image/png"
      [] OTHER           -> x

\* `word in ct` for the words lines 282-287 look for
Contains(ct, word) ==
    CASE ct = "image/jpeg" -> word = "jpeg"
      [] ct = "image/jpg"  -> word = "jpg"
      [] ct = "image/png"  -> word = "png"
      [] ct = "image/webp" -> word = "webp"
      [] OTHER             -> FALSE

IMG_EXT_ALLOW == {".jpg", ".jpeg", ".png", ".webp"}

\* "." + m.group(1).lower() (line 277)
Dotted(x) ==
    CASE x = "jpg"  -> ".jpg"
      [] x = "jpeg" -> ".jpeg"
      [] x = "png"  -> ".png"
      [] x = "webp" -> ".webp"
      [] x = "gif"  -> ".gif"
      [] OTHER      -> "."

\* mutant of guess_ext_from_url_or_ct: the suffix is taken as it is spelled and
\* the content type is not read
guess_ext_keeps_jpg(url, content_type) ==
    IF url # NoImg /\ Lower(url.suffix) \in {"jpg", "jpeg", "png", "webp"}
    THEN Dotted(Lower(url.suffix))
    ELSE ".jpeg"

\* lines 272-289; the pattern of line 275 is searched ignoring case
guess_ext_from_url_or_ct(url, content_type) ==
    IF url # NoImg /\ Lower(url.suffix) \in {"jpg", "jpeg", "png", "webp"}
    THEN LET ext == Dotted(Lower(url.suffix))
         IN  IF ext = ".jpg" THEN ".jpeg" ELSE ext
    ELSE IF content_type # ""
    THEN LET ct == Lower(content_type)
         IN  IF Contains(ct, "jpeg") \/ Contains(ct, "jpg") THEN ".jpeg"
             ELSE IF Contains(ct, "png") THEN ".png"
             ELSE IF Contains(ct, "webp") THEN ".webp"
             ELSE ".jpeg"
    ELSE ".jpeg"

\* lines 302-304 of download_image
StoredExt(url, content_type) ==
    LET ext == guess_ext_from_url_or_ct(url, content_type)
    IN  IF ext \notin IMG_EXT_ALLOW THEN ".jpeg" ELSE ext

\* wga-parser.py lines 56-61
ext_from_url(u) ==
    IF Lower(u.suffix) \in {"jpg", "jpeg", "png", "webp", "gif"}
    THEN Dotted(Lower(u.suffix))
    ELSE ".jpg"

(***************************************************************************)
(* parse_srcset_max (modern-image-parser.py lines 137-156).  A srcset is   *)
(* the list of its comma-separated parts; a part is empty or a URL with an *)
(* optional descriptor.                                                    *)
(***************************************************************************)
MaxEntries == 3        \* parts of one srcset

SrcUrls == {"a.jpg", "b.jpg", "c.jpg"}
Descriptors == {"", "480w", "1024w", "2048w", "2x", "fullw"}
Entries == [url : SrcUrls, desc : Descriptors] \cup {[url |-> "", desc |-> ""]}
Srcsets == SeqsUpTo(Entries, MaxEntries)

\* mutant of DescWidth: only the narrowest width is read, every other
\* descriptor counts as width 0
DescWidthNarrow(desc) == IF desc = "480w" THEN 480 ELSE 0

\* lines 146-151: int(toks[1][:-1]) when the second token ends with "w", 0 when
\* there is none, when it does not end with "w" or when int() raises
DescWidth(desc) ==
    CASE desc = "480w"  -> 480
      [] desc = "1024w" -> 1024
      [] desc = "2048w" -> 2048
      [] OTHER          -> 0

\* lines 141-155: the loop, from part i on
RECURSIVE SrcsetScan(_, _, _, _)
SrcsetScan(parts, i, best_url, best_w) ==
    IF i > Len(parts) THEN best_url
    ELSE IF parts[i].url = "" THEN SrcsetScan(parts, i + 1, best_url, best_w)
    ELSE LET w == DescWidth(parts[i].desc)
         IN  IF w >= best_w
             THEN SrcsetScan(parts, i + 1, parts[i].url, w)
             ELSE SrcsetScan(parts, i + 1, best_url, best_w)

parse_srcset_max(srcset) ==
    IF srcset = <<>> THEN "None" ELSE SrcsetScan(srcset, 1, "None", -1)

(***************************************************************************)
(* main of the simple collector (modern-image-parser.py lines 320-428)     *)
(***************************************************************************)
START_PAGE == 1        \* line 17
END_PAGE == 2          \* line 18, scaled down
MaxCards == 3          \* cards on one listing page

DetailUrls == {"d1", "d2"}
OgUrl == ImgUrl("og", "jpg")
ThumbUrl == ImgUrl("thumb", "")

\* a card of a listing page: its artwork link, if any, and its thumbnail
Cards == [detail : DetailUrls \cup {"none"}, thumb : {NoImg, ThumbUrl}]
CardLists == SeqsUpTo(Cards, MaxCards)

\* parse_list_page (lines 208-244): one item per artwork link not met before
RECURSIVE ParseFrom(_, _, _)
ParseFrom(cards, i, seen_urls) ==
    IF i > Len(cards) THEN <<>>
    ELSE IF cards[i].detail = "none" \/ cards[i].detail \in seen_urls
    THEN ParseFrom(cards, i + 1, seen_urls)
    ELSE <<[detail_url |-> cards[i].detail, thumb_url |-> cards[i].thumb]>>
         \o ParseFrom(cards, i + 1, seen_urls \cup {cards[i].detail})

parse_list_page(cards) == ParseFrom(cards, 1, {})

\* lines 349-354: the items whose detail URL was not seen on an earlier page
RECURSIVE NewItems(_, _)
NewItems(items, sn) ==
    IF items = <<>> THEN <<>>
    ELSE IF Head(items).detail_url \in sn
    THEN NewItems(Tail(items), sn)
    ELSE <<Head(items)>> \o NewItems(Tail(items), sn \cup {Head(items).detail_url})

\* the content of the og:image meta tag: none, blanks only, or a URL
BlankUrl == ImgUrl(" ", "")
OgContents == {NoImg, BlankUrl, OgUrl}

\* the first img the selector of line 259 finds, if any, with its attributes
FigSrcset == << [url |-> "a.jpg", desc |-> "480w"], [url |-> "b.jpg", desc |-> "1024w"] >>
FigSrc == ImgUrl("fig", "png")
FigDataSrc == ImgUrl("lazy", "webp")
FigImg(has, ss, src, ds) == [img |-> has, srcset |-> ss, src |-> src, data_src |-> ds]
NoFigImg == FigImg(FALSE, <<>>, NoImg, NoImg)
AllFigImgs ==
    {NoFigImg} \cup
    {FigImg(TRUE, ss, src, ds) :
        ss \in {<<>>, FigSrcset}, src \in {NoImg, FigSrc}, ds \in {NoImg, FigDataSrc}}
\* the <figure> contents the detail pages of a run are drawn from
FigImgs ==
    {NoFigImg,
     FigImg(TRUE, <<>>, NoImg, NoImg),
     FigImg(TRUE, FigSrcset, FigSrc, FigDataSrc)}

\* a detail page: its Open-Graph image and the image of its figure, if any
DetailPages == [og : OgContents, fig : FigImgs]

\* the URL a srcset entry names
AsImg(name) ==
    CASE name = "a.jpg" -> ImgUrl("a", "jpg")
      [] name = "b.jpg" -> ImgUrl("b", "jpg")
      [] name = "c.jpg" -> ImgUrl("c", "jpg")
      [] OTHER          -> NoImg

\* str.strip() on the contents above (line 252)
Strip(u) == IF u = BlankUrl THEN NoImg ELSE u

\* `x or y` on URLs: None and the empty string are both false
Or(x, y) == IF x # NoImg THEN x ELSE y

\* mutant of FromOg: the og:image strategy is skipped
FromOgNever(pg, rest) == rest

\* lines 250-257: the og:image content is tested before it is stripped, and
\* the stripped content is returned even when nothing is left of it
FromOg(pg, rest) == IF pg.og # NoImg THEN Strip(pg.og) ELSE rest

\* lines 259-267
FromFigure(pg) ==
    IF pg.fig.img
    THEN Or(AsImg(parse_srcset_max(pg.fig.srcset)), Or(pg.fig.src, pg.fig.data_src))
    ELSE NoImg

\* parse_artwork_image_url (lines 247-269); NoImg stands for None and for ""
parse_artwork_image_url(pg) == FromOg(pg, FromFigure(pg))

\* line 380: parse_artwork_image_url(...) or it.get("thumb_url")
ResolveImage(pg, thumb_url) == Or(parse_artwork_image_url(pg), thumb_url)

\* pathlib: OUT_DIR is the relative path "tate_images" (line 19), Path.cwd() is
\* absolute; relative_to raises ValueError unless both are of one kind and the
\* base is a prefix
PathOf(isabs, parts) == [abs |-> isabs, parts |-> parts]
OUT_DIR == PathOf(FALSE, <<"tate_images">>)
Cwd == PathOf(TRUE, <<"home", "run">>)
Join(dir, name) == PathOf(dir.abs, Append(dir.parts, name))
RelativeToRaises(path, base) ==
    path.abs # base.abs \/ ~IsPrefix(base.parts, path.parts)
RelativeTo(path, base) ==
    PathOf(FALSE, SubSeq(path.parts, Len(base.parts) + 1, Len(path.parts)))

FileOf(name) == CHOOSE f \in m_files : f.name = name
MExists(name) == \E f \in m_files : f.name = name
\* line 309: path.exists() and path.stat().st_size > 0
ExistsNonEmpty(name) == MExists(name) /\ FileOf(name).data # "empty"

\* the finally clause (lines 426-428) on a way out of the try block
LeaveTry(how) ==
    /\ m_pc' = "exited"
    /\ m_exit' = how
    /\ driver' = IF driver # "none" THEN "quit" ELSE driver

\* lines 328-329: the only call of get_selenium_driver
MAcquire ==
    /\ m_pc = "start"
    /\ \E ok \in BOOLEAN :
         IF ok
         THEN /\ driver' = "running"
              /\ acquired_n' = acquired_n + 1
              /\ m_pc' = "acquired"
              /\ UNCHANGED m_exit
         ELSE /\ m_pc' = "exited"
              /\ m_exit' = "acquire_failed"
              /\ UNCHANGED <<driver, acquired_n>>
    /\ UNCHANGED <<page_no, seen_detail_urls, all_items, idx, m_rows, m_files, m_last,
                   m_listed>>
    /\ UNCHANGED <<coreVars, fetVars, fnVars>>

\* line 331, then the try block is entered (line 333)
MEnterTry ==
    /\ m_pc = "acquired"
    /\ m_pc' = "listing"
    /\ page_no' = START_PAGE
    /\ UNCHANGED <<driver, acquired_n, m_exit, seen_detail_urls, all_items, idx,
                   m_rows, m_files, m_last,
                   m_listed>>
    /\ UNCHANGED <<coreVars, fetVars, fnVars>>

\* lines 363-367: after the listing loop
AfterListing ==
    IF all_items = <<>>
    THEN LeaveTry("no_artwork")
    ELSE /\ m_pc' = "details"
         /\ UNCHANGED <<driver, m_exit>>

\* one page of the listing (lines 334-361)
MListPage ==
    /\ m_pc = "listing"
    /\ page_no <= END_PAGE
    /\ \E outcome \in {"none", "raise", "html"}, cards \in CardLists :
         CASE outcome = "none" ->
                /\ cards = <<>>
                /\ page_no' = page_no + 1
                /\ m_listed' = "failed"
                /\ UNCHANGED <<m_pc, driver, m_exit, seen_detail_urls, all_items>>
           [] outcome = "raise" ->
                /\ cards = <<>>
                /\ LeaveTry("error")
                /\ UNCHANGED <<page_no, seen_detail_urls, all_items, m_listed>>
           [] OTHER ->
                LET items == parse_list_page(cards)
                    fresh == NewItems(items, seen_detail_urls)
                IN  /\ m_listed' = Yield(items, fresh)
                    /\ IF EndsWalk(items)
                       THEN /\ AfterListing
                            /\ UNCHANGED <<page_no, seen_detail_urls, all_items>>
                       ELSE /\ all_items' = all_items \o fresh
                            /\ seen_detail_urls' = seen_detail_urls \cup
                                  {fresh[i].detail_url : i \in 1..Len(fresh)}
                            /\ page_no' = page_no + 1
                            /\ UNCHANGED <<m_pc, driver, m_exit>>
    /\ UNCHANGED <<acquired_n, idx, m_rows, m_files, m_last>>
    /\ UNCHANGED <<coreVars, fetVars, fnVars>>

\* the listing loop is exhausted (line 334)
MListEnd ==
    /\ m_pc = "listing"
    /\ page_no > END_PAGE
    /\ AfterListing
    /\ UNCHANGED <<acquired_n, page_no, seen_detail_urls, all_items, idx, m_rows,
                   m_files, m_last, m_listed>>
    /\ UNCHANGED <<coreVars, fetVars, fnVars>>

NoPath == PathOf(FALSE, <<>>)      \* the empty image_path of line 410

\* download_image (lines 297-317) for the bytes and content type get_bytes gave
\* and the way the write went: the path it returns or None, the files it leaves,
\* whether the derived file was there, and the image fetches it issued
download_image(image_url, base_name, got, ct, wr) ==
    LET name == <<base_name, StoredExt(image_url, ct)>>
        others == {f \in m_files : f.name # name}
        Res(st, fs, ex) == [stored |-> st, files |-> fs, existed |-> ex,
                            img_fetches |-> 1]
    IN  IF got # "data" THEN Res("none", m_files, FALSE)
        ELSE IF ExistsNonEmpty(name) THEN Res("path", m_files, TRUE)
        ELSE CASE wr = "ok" ->
                    Res("path", others \cup {[name |-> name, data |-> "new"]}, FALSE)
               [] wr = "partial" ->
                    Res("none", others \cup {[name |-> name, data |-> "partial"]},
                        FALSE)
               [] OTHER -> Res("none", m_files, FALSE)

\* line 410: str(img_path.relative_to(Path.cwd())) if img_path else ""
ImagePathRaises(stored, name) ==
    stored = "path" /\ RelativeToRaises(Join(OUT_DIR, name), Cwd)

\* one iteration of the detail loop (lines 369-416)
MDetail ==
    /\ m_pc = "details"
    /\ idx < Len(all_items)
    /\ idx' = idx + 1
    /\ LET it == all_items[idx + 1]
       IN  \E outcome \in {"no_html", "raise", "html"}, pg \in DetailPages,
              got \in {"fail", "empty", "data"}, ct \in {"", "image/png"},
              wr \in {"ok", "fail", "partial"} :
             LET image_url == ResolveImage(pg, it.thumb_url)
                 name == <<it.detail_url, StoredExt(image_url, ct)>>
                 quiet == /\ pg = [og |-> NoImg, fig |-> NoFigImg]
                          /\ got = "fail" /\ ct = "" /\ wr = "fail"
             IN  CASE outcome = "no_html" ->
                        /\ quiet
                        /\ m_last' = Step("no_html", FALSE, 0, "na")
                        /\ UNCHANGED <<m_rows, m_files>>
                   [] outcome = "raise" ->
                        /\ quiet
                        /\ m_last' = Step("error", FALSE, 0, "na")
                        /\ UNCHANGED <<m_rows, m_files>>
                   [] OTHER ->
                        IF image_url = NoImg
                        THEN /\ got = "fail" /\ ct = "" /\ wr = "fail"
                             /\ m_last' = Step("no_image", FALSE, 0, "na")
                             /\ UNCHANGED <<m_rows, m_files>>
                        ELSE LET d == download_image(image_url, it.detail_url,
                                                     got, ct, wr)
                             IN  /\ got # "data" => (ct = "" /\ wr = "fail")
                                 /\ m_files' = d.files
                                 /\ IF ImagePathRaises(d.stored, name)
                                    THEN /\ m_last' = Step("error", d.existed,
                                                          d.img_fetches, d.stored)
                                         /\ UNCHANGED m_rows
                                    ELSE /\ m_last' = Step("row", d.existed,
                                                          d.img_fetches, d.stored)
                                         /\ m_rows' = Append(m_rows,
                                               [detail_url |-> it.detail_url,
                                                image_url |-> image_url,
                                                image_path |->
                                                  IF d.stored = "path"
                                                  THEN RelativeTo(
                                                         Join(OUT_DIR, name), Cwd)
                                                  ELSE NoPath])
    /\ UNCHANGED <<m_pc, driver, acquired_n, m_exit, page_no, seen_detail_urls,
                   all_items, m_listed>>
    /\ UNCHANGED <<coreVars, fetVars, fnVars>>

\* lines 418-428: the detail loop is exhausted, main ends
MDetailsEnd ==
    /\ m_pc = "details"
    /\ idx = Len(all_items)
    /\ LeaveTry("normal")
    /\ UNCHANGED <<acquired_n, page_no, seen_detail_urls, all_items, idx, m_rows,
                   m_files, m_last, m_listed>>
    /\ UNCHANGED <<coreVars, fetVars, fnVars>>

\* KeyboardInterrupt: before line 333 nothing takes it; in the listing loop the
\* handler of line 424 does; in the detail loop the one of line 413 breaks
MInterrupt ==
    /\ m_pc \in {"start", "acquired", "listing", "details"}
    /\ IF m_pc \in {"start", "acquired"}
       THEN /\ m_pc' = "exited"
            /\ m_exit' = "interrupt"
            /\ UNCHANGED driver
       ELSE LeaveTry("interrupt")
    /\ UNCHANGED <<acquired_n, page_no, seen_detail_urls, all_items, idx, m_rows,
                   m_files, m_last, m_listed>>
    /\ UNCHANGED <<coreVars, fetVars, fnVars>>

\* the files OUT_DIR may hold when main starts: none, or the file of an earlier
\* run for the first artwork, whole or empty
OldFiles ==
    {{}} \cup {{[name |-> <<"d1", ".jpeg">>, data |-> d]} : d \in {"old", "empty"}}

\* main at line 321
InitMain ==
    /\ IdleBFS
    /\ IdleRes
    /\ IdleBuild
    /\ IdleFetch
    /\ IdleFn
    /\ m_pc = "start"
    /\ driver = "none"
    /\ acquired_n = 0
    /\ m_exit = "none"
    /\ page_no = 0
    /\ seen_detail_urls = {}
    /\ all_items = <<>>
    /\ idx = 0
    /\ m_rows = <<>>
    /\ m_files \in OldFiles
    /\ m_last = NoStep
    /\ m_listed = "none"

NextMain ==
    MAcquire \/ MEnterTry \/ MListPage \/ MListEnd \/ MDetail \/ MDetailsEnd
    \/ MInterrupt

SpecMain == InitMain /\ [][NextMain]_vars

(***************************************************************************)
(* C11: in the simple collector the headless browser is acquired exactly   *)
(* once per run and, once acquired, is released on every exit path of      *)
(* main: normal completion, the early return, an interrupt, an error.      *)
(***************************************************************************)
C11_DriverReleased ==
    m_pc = "exited" =>
        /\ acquired_n <= 1
        /\ acquired_n = 1 => driver = "quit"

(***************************************************************************)
(* C12: storing an image whose derived file already exists and is not      *)
(* empty issues no image fetch, and returns the existing path.             *)
(***************************************************************************)
C12_NoFetchWhenStored ==
    m_last.existed => (m_last.img_fetches = 0 /\ m_last.stored = "path")

(***************************************************************************)
(* C13: after build_dataset returns, every class whose accepted count is   *)
(* below min_per_class has no rows in the manifest and no image file left  *)
(* under its class directory (stated here for the files this run wrote;    *)
(* data -2 marks a file that was there before the run).                    *)
(***************************************************************************)
C13_PurgedBelowFloor ==
    pc = "done" =>
        \A c \in ClassIds :
            counts[c] < min_per_class =>
                /\ \A i \in 1..Len(manifest.rows) : manifest.rows[i].movement_id # c
                /\ \A f \in files : f.path[1] = c => f.data = -2

(***************************************************************************)
(* The retrying fetches: get_html and get_bytes of the simple collector    *)
(* (modern-image-parser.py lines 109-134), Fetcher.get_text and            *)
(* Fetcher.get_bytes of the dataset builder (wga-parser.py lines 84-96)    *)
(***************************************************************************)
ModernRetries == 3     \* retries=3, lines 109 and 120
WgaAttempts == 5       \* stop_after_attempt(5), lines 84 and 91

FetchKinds == {"get_html", "get_bytes", "Fetcher.get_text", "Fetcher.get_bytes"}

\* what one attempt meets: status 200 with a body, status 200 with an empty body,
\* another 2xx status, a 3xx status that requests does not follow (no Location,
\* 304), a 4xx or 5xx status, or an exception of the transport
Responses == {"200", "200_empty", "2xx", "3xx", "4xx5xx", "transport"}

Retries(kind) ==
    IF kind \in {"get_html", "get_bytes"} THEN ModernRetries ELSE WgaAttempts

\* the test that ends the call with a value: line 113, line 124, and
\* raise_for_status (lines 87 and 94), which raises on 4xx and 5xx only
Succeeds(kind, resp) ==
    CASE kind = "get_html"  -> resp = "200"
      [] kind = "get_bytes" -> resp \in {"200", "200_empty"}
      [] OTHER              -> resp \notin {"4xx5xx", "transport"}

\* mutant of MoreAttempts: the attempts are not counted
MoreAttemptsForever(kind, n) == TRUE

\* range(retries) and stop_after_attempt
MoreAttempts(kind, n) == n < Retries(kind)

\* one attempt; after the last failed one the call returns None (lines 118, 134)
\* or raises RetryError
FetchAttempt ==
    /\ f_pc = "try"
    /\ MoreAttempts(f_kind, Len(f_attempts))
    /\ \E resp \in Responses :
         /\ f_attempts' = Append(f_attempts, resp)
         /\ f_pc' = IF Succeeds(f_kind, resp) THEN "returned"
                    ELSE IF MoreAttempts(f_kind, Len(f_attempts) + 1) THEN "try"
                    ELSE "failed"
    /\ UNCHANGED f_kind
    /\ UNCHANGED <<coreVars, mainVars, fnVars>>

InitFetch ==
    /\ IdleBFS
    /\ IdleRes
    /\ IdleBuild
    /\ IdleMain
    /\ IdleFn
    /\ f_pc = "try"
    /\ f_kind \in FetchKinds
    /\ f_attempts = <<>>

NextFetch == FetchAttempt

SpecFetch == InitFetch /\ [][NextFetch]_vars

(***************************************************************************)
(* C14: a fetch issues at most the fixed number of attempts, returns at    *)
(* the first successful attempt without issuing another, reports failure   *)
(* only after the last attempt has failed, and counts a non-2xx response   *)
(* and a transport error each as one failed attempt.                       *)
(***************************************************************************)
Non2xx == {"3xx", "4xx5xx", "transport"}

InitStore ==
    /\ IdleBFS
    /\ IdleRes
    /\ IdleFetch
    /\ IdleFn
    \* main at line 369
    /\ m_pc = "details"
    /\ driver = "running"
    /\ acquired_n = 1
    /\ m_exit = "none"
    /\ page_no = START_PAGE + 1
    /\ seen_detail_urls = {"d1"}
    /\ \E t \in {NoImg, ThumbUrl} :
         all_items = <<[detail_url |-> "d1", thumb_url |-> t]>>
    /\ idx = 0
    /\ m_rows = <<>>
    /\ m_files \in OldFiles
    /\ m_last = NoStep
    /\ m_listed = "none"
    \* build_dataset at line 333
    /\ pc = "artists"
    /\ world = [mode |-> "any", works |-> <<>>]
    /\ min_per_class = 0
    /\ max_per_class \in 1..MaxQuota
    /\ max_pages = 0
    /\ files = {}
    /\ artists = <<[artist_url |-> "a1", movement_raw |-> "Baroque",
                    profession |-> "painter"]>>
    /\ StartOfRun
    /\ HoldsFetcher

NextStore ==
    MDetail \/ MDetailsEnd \/ StartArtist \/ WorkPage \/ EndArtist \/ Finish

SpecStore == InitStore /\ [][NextStore]_vars

(***************************************************************************)
(* C15: when a store fails with an I/O error the run continues; the simple *)
(* collector still emits the record, with an empty local path, the dataset *)
(* builder drops it: no manifest row, class counter unchanged.  (A failed  *)
(* write is seen here by the partial file it leaves.)                      *)
(***************************************************************************)
C15_StoreFailureIsNotFatal ==
    /\ [][(\E f \in m_files' \ m_files : f.data = "partial") =>
            /\ m_pc' = "details"
            /\ Len(m_rows') = Len(m_rows) + 1
            /\ m_rows'[Len(m_rows')].image_path = NoPath
            /\ m_rows'[Len(m_rows')].detail_url = all_items[idx + 1].detail_url]_vars
    /\ [][(\E f \in files' \ files : f.data = -1) =>
            /\ pc' = "works"
            /\ rows' = rows
            /\ counts' = counts]_vars

\* both programs went on after a failed write: the collector ended normally
\* with its record, the builder accepted the next work of the artist
C15_Witness ==
    /\ m_exit = "normal"
    /\ \E f \in m_files : f.data = "partial"
    /\ Len(m_rows) = 1
    /\ \E f \in files : f.data = -1
    /\ Len(rows) = 1
    /\ pc = "done"

(***************************************************************************)
(* C16: the simple collector emits one row for every candidate whose       *)
(* detail page was fetched and whose image URL was resolved, and the row   *)
(* carries the local path of the image when the store succeeded.           *)
(***************************************************************************)
C16_RowPerResolvedCandidate ==
    m_last.img_fetches = 1 =>
        /\ m_last.kind = "row"
        /\ m_rows # <<>>
        /\ m_rows[Len(m_rows)].detail_url = all_items[idx].detail_url
        /\ m_last.stored = "path" => m_rows[Len(m_rows)].image_path # NoPath

(***************************************************************************)
(* The metadata table of a work page (wga-parser.py lines 286-296): the    *)
(* rows of the page that have at least two cells, as key and value texts   *)
(***************************************************************************)
MaxMetaRows == 2       \* table rows on one work page

MetaKeys == {"Title", "Title:", "TITLE", "title", "Date", "Date:", "DATE", "date"}
MetaValues == {"", "x", "y"}
MetaRows == [key : MetaKeys, value : MetaValues]
MetaTables == SeqsUpTo(MetaRows, MaxMetaRows)

\* mutant of RStripColon: the key is used as it is written
KeepColon(k) == k

\* line 290: .rstrip(":") on the keys above
RStripColon(k) ==
    CASE k = "Title:" -> "Title"
      [] k = "Date:"  -> "Date"
      [] OTHER        -> k

\* lines 287-293 and meta.get(key, ""): the value of the last row stored under
\* the key; a row is stored when its key and its value are not empty
RECURSIVE MetaGet(_, _, _)
MetaGet(trs, key, i) ==
    IF i = 0 THEN ""
    ELSE IF RStripColon(trs[i].key) = key /\ trs[i].value # ""
    THEN trs[i].value
    ELSE MetaGet(trs, key, i - 1)

\* lines 295-296
MetaFields(trs) ==
    LET get(key) == MetaGet(trs, key, Len(trs))
    IN  [title |-> IF get("Title") # "" THEN get("Title") ELSE get("TITLE"),
         date  |-> IF get("Date") # "" THEN get("Date") ELSE get("DATE")]

(***************************************************************************)
(* One call of a pure helper, for every argument                           *)
(***************************************************************************)
ResolveArgs == [pg : [og : OgContents, fig : AllFigImgs], thumb_url : {NoImg, ThumbUrl}]
ExtArgs == [url : {ImgUrl("img", sfx) : sfx \in Suffixes}, ct : ContentTypes]

FnCall ==
    /\ fn_pc = "call"
    /\ fn_pc' = "done"
    /\ fn_out' = CASE fn_name = "download_image.ext" -> StoredExt(fn_arg.url, fn_arg.ct)
                   [] fn_name = "ext_from_url"       -> ext_from_url(fn_arg.url)
                   [] fn_name = "main.image_url"     -> ResolveImage(fn_arg.pg, fn_arg.thumb_url)
                   [] fn_name = "parse_artwork_page.meta" -> MetaFields(fn_arg)
                   [] OTHER                          -> parse_srcset_max(fn_arg)
    /\ UNCHANGED <<fn_name, fn_arg>>
    /\ UNCHANGED <<coreVars, mainVars, fetVars>>

InitFn ==
    /\ IdleBFS
    /\ IdleRes
    /\ IdleBuild
    /\ IdleMain
    /\ IdleFetch
    /\ fn_pc = "call"
    /\ fn_out = ""
    /\ \/ fn_name \in {"download_image.ext", "ext_from_url"} /\ fn_arg \in ExtArgs
       \/ fn_name = "parse_srcset_max" /\ fn_arg \in Srcsets
       \/ fn_name = "main.image_url" /\ fn_arg \in ResolveArgs
       \/ fn_name = "parse_artwork_page.meta" /\ fn_arg \in MetaTables

NextFn == FnCall

SpecFn == InitFn /\ [][NextFn]_vars

(***************************************************************************)
(* The extension policy as a table: what the suffix says, what the content *)
(* type says, and the default                                              *)
(***************************************************************************)
BySuffix(sfx) ==
    CASE sfx \in {"jpg", "JPG", "jpeg", "Jpeg"} -> ".jpeg"
      [] sfx \in {"png", "PNG"}                 -> ".png"
      [] sfx = "webp"                           -> ".webp"
      [] OTHER                                  -> "uninformative"

ByContentType(ct) ==
    CASE ct \in {"image/jpeg", "image/jpg"} -> ".jpeg"
      [] ct \in {"image/png", "IMAGE/PNG"}  -> ".png"
      [] ct = "image/webp"                  -> ".webp"
      [] OTHER                              -> "uninformative"

SuffixFirst(url, ct) ==
    IF BySuffix(url.suffix) # "uninformative" THEN BySuffix(url.suffix)
    ELSE IF ByContentType(ct) # "uninformative" THEN ByContentType(ct)
    ELSE ".jpeg"

SuffixOnly(url) ==
    CASE url.suffix \in {"jpg", "JPG"}   -> ".jpg"
      [] url.suffix \in {"jpeg", "Jpeg"} -> ".jpeg"
      [] url.suffix \in {"png", "PNG"}   -> ".png"
      [] url.suffix = "webp"             -> ".webp"
      [] url.suffix = "gif"              -> ".gif"
      [] OTHER                           -> ".jpg"

ExtCalled(name) == fn_pc = "done" /\ fn_name = name

\* C17 (as stated): in both collection modes the stored file's extension comes
\* from the URL's suffix first, jpg spelled jpeg, then from the content type,
\* and is jpeg when neither is informative or the extension is not recognised
C17_ExtensionPolicy ==
    (ExtCalled("download_image.ext") \/ ExtCalled("ext_from_url"))
        => fn_out = SuffixFirst(fn_arg.url, fn_arg.ct)

\* C17 (amended): the simple collector follows that policy; the dataset
\* builder reads the URL's suffix only: a suffix among jpg, jpeg, png, webp
\* and gif is kept in lower case, jpg staying jpg, and every other URL gives
\* jpg whatever the content type
C17_ExtensionPolicyPerMode ==
    /\ ExtCalled("download_image.ext") => fn_out = SuffixFirst(fn_arg.url, fn_arg.ct)
    /\ ExtCalled("ext_from_url") => fn_out = SuffixOnly(fn_arg.url)

\* a .jpg URL served as image/png is stored as .jpeg by the simple collector
C17_Witness ==
    /\ ExtCalled("download_image.ext")
    /\ fn_arg.url.suffix = "jpg"
    /\ fn_arg.ct = "image/png"
    /\ fn_out = ".jpeg"

(***************************************************************************)
(* The widest entry of a srcset                                            *)
(***************************************************************************)
WidthOf(e) ==
    IF e.desc \in {"480w", "1024w", "2048w"}
    THEN CHOOSE n \in {480, 1024, 2048} :
            e.desc = (CASE n = 480 -> "480w" [] n = 1024 -> "1024w" [] OTHER -> "2048w")
    ELSE 0

RealParts(srcset) == {i \in 1..Len(srcset) : srcset[i].url # ""}

\* C18: parse_srcset_max returns the URL of an entry of maximum width, an entry
\* without a width descriptor counting as width 0, whatever the order of the
\* entries
C18_WidestEntry ==
    ExtCalled("parse_srcset_max") =>
        IF RealParts(fn_arg) = {} THEN fn_out = "None"
        ELSE \E i \in RealParts(fn_arg) :
                /\ fn_out = fn_arg[i].url
                /\ \A j \in RealParts(fn_arg) : WidthOf(fn_arg[j]) <= WidthOf(fn_arg[i])

C18_Witness ==
    /\ ExtCalled("parse_srcset_max")
    /\ fn_arg = << [url |-> "a.jpg", desc |-> "480w"],
                   [url |-> "b.jpg", desc |-> "1024w"],
                   [url |-> "c.jpg", desc |-> "2048w"] >>
    /\ fn_out = "c.jpg"

(***************************************************************************)
(* The Seen-Image Index and the class counters of build_dataset            *)
(***************************************************************************)
AcceptedUrls == {rows[i].image_url : i \in 1..Len(rows)}

\* C19: at every point of a dataset-builder run the Seen-Image Index is exactly
\* the set of image URLs of the records accepted so far, so a candidate whose
\* download or write fails leaves it unchanged
C19_SeenIndexIsAccepted == seen_image_urls = AcceptedUrls

\* C20: whenever build_dataset makes a quota decision, the counter of each class
\* equals the number of manifest rows accepted so far for that class
C20_CountersMatchRows == \A c \in ClassIds : counts[c] = CountIn(rows, c)

\* a record was accepted and a later candidate of the artist failed
C20_Witness ==
    /\ pc = "works"
    /\ last = "error"
    /\ rows # <<>>
    /\ counts[movement_id] = 1

(***************************************************************************)
(* The two whole-collection walks: the artist list of the dataset builder  *)
(* (collect_all_artists) and the paginated listing of the simple collector *)
(* (main, lines 334-361).  One of the two programs runs.                   *)
(***************************************************************************)
InitWalk ==
    /\ IdleBFS
    /\ IdleRes
    /\ IdleFetch
    /\ IdleFn
    /\ \/ \* main at line 334
          /\ IdleBuild
          /\ m_pc = "listing"
          /\ driver = "running"
          /\ acquired_n = 1
          /\ m_exit = "none"
          /\ page_no = START_PAGE
          /\ seen_detail_urls = {}
          /\ all_items = <<>>
          /\ idx = 0
          /\ m_rows = <<>>
          /\ m_files = {}
          /\ m_last = NoStep
          /\ m_listed = "none"
       \/ \* build_dataset at line 320
          /\ IdleMain
          /\ pc = "listing"
          /\ world = [mode |-> "any", works |-> <<>>]
          /\ min_per_class = 0
          /\ max_per_class = 1
          /\ max_pages \in 0..MaxListPages
          /\ files = {}
          /\ artists = <<>>
          /\ StartOfRun
          /\ HoldsFetcher

NextWalk == ListPage \/ MListPage \/ MListEnd

SpecWalk == InitWalk /\ [][NextWalk]_vars

\* the walk is about to fetch its next page
WalkGoesOn == pc = "listing"
MWalkGoesOn == m_pc = "listing" /\ page_no <= END_PAGE

\* C22 (as stated): in a whole-collection walk a page that yields zero new
\* items ends the walk, no later page is fetched after it
C22_ZeroNewEndsWalk ==
    /\ listed \in {"empty", "stale"} => ~WalkGoesOn
    /\ m_listed \in {"empty", "stale"} => ~MWalkGoesOn

\* C22 (amended): a page that yields no items at all ends the walk, and then
\* no later page is fetched
C22_EmptyPageEndsWalk ==
    /\ listed = "empty" => ~WalkGoesOn
    /\ m_listed = "empty" => ~MWalkGoesOn

\* the artist list gave rows on its first page and none on its second, and the
\* crawl returned
C22_Witness ==
    /\ listed = "empty"
    /\ pc = "artists"
    /\ artists # <<>>

(***************************************************************************)
(* Image resolution on a detail page, as a list of strategies              *)
(***************************************************************************)
\* what each strategy yields on its own, in the order of their priority
Strategies(pg, thumb_url) == << Strip(pg.og), FromFigure(pg), thumb_url >>

FirstNonEmpty(results) ==
    IF \E i \in 1..Len(results) : results[i] # NoImg
    THEN results[CHOOSE i \in 1..Len(results) :
                    /\ results[i] # NoImg
                    /\ \A j \in 1..(i - 1) : results[j] = NoImg]
    ELSE NoImg

\* C23: detail-page image resolution takes the first non-empty result of its
\* ordered strategies (the Open-Graph image, else the first image of the
\* figure selector, else the thumbnail of the listing); a strategy that yields
\* an empty result never prevents the next one from being tried
C23_FirstNonEmptyStrategy ==
    ExtCalled("main.image_url") =>
        fn_out = FirstNonEmpty(Strategies(fn_arg.pg, fn_arg.thumb_url))

(***************************************************************************)
(* Title and date of a work page                                           *)
(***************************************************************************)
\* the key of a row, trimmed of a trailing colon, in lower case
FoldedKey(k) ==
    IF k \in {"Title", "Title:", "TITLE", "title"} THEN "title" ELSE "date"

\* the rows that carry a value under a key of the given spellings
RowsUnder(trs, spellings) ==
    {i \in 1..Len(trs) : trs[i].key \in spellings /\ trs[i].value # ""}

\* the field is the value of the one row found under the spellings
FoundUnder(trs, spellings, field) ==
    \A i \in RowsUnder(trs, spellings) :
        RowsUnder(trs, spellings) = {i} => field = trs[i].value

\* C24 (as stated): title and date are found under their key whatever the
\* key's letter case: a row whose key, trimmed of a trailing colon, is "Title",
\* "TITLE" or "title" gives its value as the record's title, likewise the date
C24_KeyInAnyCase ==
    ExtCalled("parse_artwork_page.meta") =>
        /\ FoundUnder(fn_arg, {k \in MetaKeys : FoldedKey(k) = "title"}, fn_out.title)
        /\ FoundUnder(fn_arg, {k \in MetaKeys : FoldedKey(k) = "date"}, fn_out.date)

\* C24 (amended): a row whose key, trimmed of a trailing colon, is "Title" or
\* "TITLE" gives its value as the title ("Date" or "DATE" as the date); a key
\* in any other letter case is not recognised, and without a recognised row
\* the field is empty
C24_KeyInTwoSpellings ==
    ExtCalled("parse_artwork_page.meta") =>
        /\ FoundUnder(fn_arg, {"Title", "Title:", "TITLE"}, fn_out.title)
        /\ FoundUnder(fn_arg, {"Date", "Date:", "DATE"}, fn_out.date)
        /\ RowsUnder(fn_arg, {"Title", "Title:", "TITLE"}) = {} => fn_out.title = ""
        /\ RowsUnder(fn_arg, {"Date", "Date:", "DATE"}) = {} => fn_out.date = ""

\* an upper-case title and a date with a colon are both found
C24_Witness ==
    /\ ExtCalled("parse_artwork_page.meta")
    /\ fn_arg = << [key |-> "TITLE", value |-> "x"], [key |-> "Date:", value |-> "y"] >>
    /\ fn_out = [title |-> "x", date |-> "y"]

(***************************************************************************)
(* The entry of build_dataset (lines 305-322): the Fetcher is constructed  *)
(* with the keyword argument sleep                                         *)
(***************************************************************************)
SleepValues == {0, 5, 20}

\* lines 71-75: the attributes of the class body, none of them annotated
FetcherAttrs == [delay |-> 5, timeout |-> 60]

\* @dataclass makes a field, and an __init__ parameter, of each annotated
\* attribute of the class body: there is none
FetcherFields == {}

\* Fetcher(**kwargs): the generated __init__ raises TypeError for a keyword
\* that is no field; a field not given keeps its default
NewFetcher(kwargs) ==
    IF DOMAIN kwargs \subseteq FetcherFields
    THEN FetcherOf(IF "delay" \in DOMAIN kwargs THEN kwargs.delay
                   ELSE FetcherAttrs.delay)
    ELSE NoFetcher

\* line 317, then the call of collect_all_artists (line 320)
MakeFetcher ==
    /\ pc = "entry"
    /\ LET f == NewFetcher([sleep |-> sleep])
       IN  IF f.made
           THEN /\ fetcher' = f
                /\ pc' = "listing"
           ELSE /\ pc' = "raised"
                /\ UNCHANGED fetcher
    /\ UNCHANGED <<sleep, world, min_per_class, max_per_class, max_pages, page_i,
                   listed, all_rows, artists, ai, movement_id, nworks, wi, counts,
                   seen_image_urls, sample_id, rows, files, manifest, fetched, last>>
    /\ UNCHANGED <<bfsVars, resVars, extVars>>

\* build_dataset at line 312, for any parameters
InitStart ==
    /\ IdleBFS
    /\ IdleRes
    /\ IdleExt
    /\ pc = "entry"
    /\ sleep \in SleepValues
    /\ fetcher = NoFetcher
    /\ world = [mode |-> "any", works |-> <<>>]
    /\ min_per_class \in 0..MaxQuota
    /\ max_per_class \in 0..MaxQuota
    /\ max_pages \in 0..MaxListPages
    /\ files \in {{}, {[path |-> <<"baroque", 0>>, data |-> -2]}}
    /\ artists = <<>>
    /\ StartOfRun

NextStart == MakeFetcher

SpecStart == InitStart /\ [][NextStart]_vars

\* C25: build_dataset constructs its fetcher with the politeness delay it was
\* given and reaches the artist crawl: the delay the fetcher applies after each
\* successful request equals the configured sleep value
C25_FetcherUsesSleep ==
    pc # "entry" => (pc = "listing" /\ fetcher.made /\ fetcher.delay = sleep)

(***************************************************************************)
(* The files behind the manifest rows of build_dataset                     *)
(***************************************************************************)
ManifestRows == IF manifest.returned THEN manifest.rows ELSE rows

\* C26: for every row of the dataset-builder manifest, the file at the row's
\* local_path holds the bytes fetched from the row's image_url, also after a
\* write under the same sample id failed part-way and when the output
\* directory holds files of a previous run
C26_FileHoldsRowImage ==
    \A i \in 1..Len(ManifestRows) :
        \E f \in files :
            /\ f.path = ManifestRows[i].local_path
            /\ f.data = ManifestRows[i].image_url

====
